---------------------------- MODULE Spec2Model ----------------------------
(***************************************************************************)
(* A model of the Werewolf room server (src/backend/main.py): one Room,    *)
(* its roster, its action log and the host / player request handlers.      *)
(* Every handler is one atomic action (the sequential reading of the       *)
(* code); `reply` records the response of the last request.  The last      *)
(* part of the module runs resolve_night and village_state one field        *)
(* access at a time, in `resolving` and `reading`; everywhere else no       *)
(* request is ever in progress.                                             *)
(*                                                                         *)
(* Conventions                                                             *)
(*   - a player's id is its position in `players` (ids are unique, the    *)
(*     dict keeps insertion order);                                        *)
(*   - Python's None is the string None for names / roles / kinds and the  *)
(*     number NoNumber for the optional integers;                          *)
(*   - the rosters considered give the players pairwise distinct names.    *)
(***************************************************************************)
EXTENDS Integers, Sequences, FiniteSets, TLC

VARIABLES
    players,                 \* Room.players: <<[name, role, alive, muted_today, prince_revealed]>>
    phase,                   \* Room.phase
    night_number,            \* Room.night_number
    day_number,              \* Room.day_number
    started,                 \* Room.started
    actions,                 \* Room.actions: the action log
    witch_has_heal,          \* Room.witch_has_heal
    witch_has_poison,        \* Room.witch_has_poison
    last_guard_target_name,  \* Room.last_guard_target_name
    deaths_last_night,       \* Room.deaths_last_night
    muted_for_today,         \* Room.muted_for_today
    active_call,             \* Room.active_call
    voting_status,           \* Room.voting_status
    vote_duration_sec,       \* Room.vote_duration_sec
    winner,                  \* Room.winner
    reply,                   \* the response to the last request
    resolving,               \* the resolve_night request in progress: its place and locals
    reading                  \* the village_state request in progress: its place and locals

room == <<players, phase, night_number, day_number, started, actions,
          witch_has_heal, witch_has_poison, last_guard_target_name,
          deaths_last_night, muted_for_today, active_call, voting_status,
          vote_duration_sec, winner>>

vars == <<players, phase, night_number, day_number, started, actions,
          witch_has_heal, witch_has_poison, last_guard_target_name,
          deaths_last_night, muted_for_today, active_call, voting_status,
          vote_duration_sec, winner, reply, resolving, reading>>

----------------------------------------------------------------------------
\* Bounds of the model.

\* Longest action log considered (the log is emptied on entering a night).
MaxActions == 3

\* Largest night / day counter a phase change may produce.
MaxCycle == 2

----------------------------------------------------------------------------
\* Values.

None == "None"

NoNumber == -1

\* Python truthiness of an Optional[str].
Truthy(s) == s # None /\ s # ""

\* The name the k-th joiner gives.
PlayerName(k) ==
    <<"p1", "p2", "p3", "p4", "p5", "p6", "p7", "p8", "p9", "p10">>[k]

\* A name no player bears.
Ghost == "ghost"

Player(nm) ==
    [name |-> nm, role |-> None, alive |-> TRUE, muted_today |-> FALSE,
     prince_revealed |-> FALSE]

Action(pid, kind, target, ph, nn, dn) ==
    [player_id |-> pid, action_type |-> kind, target_name |-> target,
     phase |-> ph, night_number |-> nn, day_number |-> dn]

\* A response: the handler, the HTTP status and the body.
Resp(op, status, body) == [op |-> op, status |-> status, body |-> body]

\* No request in progress.
Idle == [pc |-> "idle"]

\* A handler that runs from its first line to its response without another
\* request in between: it responds, and leaves no request in progress behind.
Respond(op, status, body) ==
    /\ reply' = Resp(op, status, body)
    /\ UNCHANGED <<resolving, reading>>

----------------------------------------------------------------------------
\* Sequence helpers.

\* The subsequence of s at the positions keep, in order.
RECURSIVE SelectSeqIdx(_, _, _)
SelectSeqIdx(s, keep, i) ==
    IF i > Len(s) THEN <<>>
    ELSE IF i \in keep THEN <<s[i]>> \o SelectSeqIdx(s, keep, i + 1)
    ELSE SelectSeqIdx(s, keep, i + 1)

\* [s[i] for i in range(len(s)) if i in keep]
Keep(s, keep) == SelectSeqIdx(s, keep, 1)

Range(s) == {s[i] : i \in DOMAIN s}

Last(s) == s[Len(s)]

\* An insertion-ordered dict is a sequence of [k, v] items.
DictHas(d, k) == \E i \in DOMAIN d : d[i].k = k

DictGet(d, k, default) ==
    IF DictHas(d, k) THEN d[CHOOSE i \in DOMAIN d : d[i].k = k].v ELSE default

\* d[k] = v: an existing key keeps its place, a new key goes last.
DictSet(d, k, v) ==
    IF DictHas(d, k)
    THEN [i \in DOMAIN d |-> IF d[i].k = k THEN [k |-> k, v |-> v] ELSE d[i]]
    ELSE Append(d, [k |-> k, v |-> v])

\* max(d.items(), key=lambda x: x[1])[0]: the first item of greatest value.
MaxKey(d) ==
    d[CHOOSE i \in DOMAIN d :
        /\ \A j \in DOMAIN d : d[j].v <= d[i].v
        /\ \A j \in DOMAIN d : j < i => d[j].v < d[i].v].k

\* counter[t] = counter.get(t, 0) + 1 for each t of ts, in order.
RECURSIVE Tally(_, _)
Tally(ts, counter) ==
    IF ts = <<>> THEN counter
    ELSE Tally(Tail(ts), DictSet(counter, Head(ts), DictGet(counter, Head(ts), 0) + 1))

\* The dict as a function on its keys (what the JSON body carries).
DictAsFunction(d) == [k \in {d[i].k : i \in DOMAIN d} |-> DictGet(d, k, 0)]

----------------------------------------------------------------------------
\* Utilities of the server.

\* find_player_by_name: the id of the first player of that name, 0 for None.
find_player_by_name(ps, nm) ==
    IF \E i \in DOMAIN ps : ps[i].name = nm
    THEN CHOOSE i \in DOMAIN ps :
            /\ ps[i].name = nm
            /\ \A j \in DOMAIN ps : j < i => ps[j].name # nm
    ELSE 0

alive_wolves(ps) == Cardinality({i \in DOMAIN ps : ps[i].alive /\ ps[i].role = "werewolf"})

alive_others(ps) == Cardinality({i \in DOMAIN ps : ps[i].alive /\ ps[i].role # "werewolf"})

\* Mutant: the werewolves win only when they outnumber the others.
compute_winner_strict(ps) ==
    IF alive_wolves(ps) = 0 /\ alive_others(ps) > 0 THEN "village"
    ELSE IF alive_wolves(ps) > 0 /\ alive_wolves(ps) > alive_others(ps) THEN "werewolves"
    ELSE None

compute_winner(ps) ==
    IF alive_wolves(ps) = 0 /\ alive_others(ps) > 0 THEN "village"
    ELSE IF alive_wolves(ps) > 0 /\ alive_wolves(ps) >= alive_others(ps) THEN "werewolves"
    ELSE None

IsVoteAction(a) == a.action_type = "vote_lynch" /\ Truthy(a.target_name)

votes_actions(acts) == Keep(acts, {i \in DOMAIN acts : IsVoteAction(acts[i])})

\* Mutant: a player's first vote is kept, later ones are dropped.
RECURSIVE first_vote_by_player(_, _)
first_vote_by_player(vs, d) ==
    IF vs = <<>> THEN d
    ELSE first_vote_by_player(Tail(vs),
            IF DictHas(d, Head(vs).player_id) THEN d
            ELSE DictSet(d, Head(vs).player_id, Head(vs).target_name))

\* last_vote_by_player[a.player_id] = a.target_name for each vote, in order.
RECURSIVE last_vote_by_player(_, _)
last_vote_by_player(vs, d) ==
    IF vs = <<>> THEN d
    ELSE last_vote_by_player(Tail(vs), DictSet(d, Head(vs).player_id, Head(vs).target_name))

lynch_counter(acts) ==
    LET d == last_vote_by_player(votes_actions(acts), <<>>)
    IN  Tally([i \in DOMAIN d |-> d[i].v], <<>>)

\* compute_lynch_votes: the candidate (None without votes) and the counter.
compute_lynch_votes(acts) ==
    LET counter == lynch_counter(acts)
    IN  IF counter = <<>> THEN [candidate_name |-> None, counter |-> <<>>]
        ELSE [candidate_name |-> MaxKey(counter), counter |-> counter]

----------------------------------------------------------------------------
\* The room after create_room.

Init ==
    /\ players = <<>>
    /\ phase = "lobby"
    /\ night_number = 0
    /\ day_number = 0
    /\ started = FALSE
    /\ actions = <<>>
    /\ witch_has_heal = TRUE
    /\ witch_has_poison = TRUE
    /\ last_guard_target_name = None
    /\ deaths_last_night = <<>>
    /\ muted_for_today = <<>>
    /\ active_call = None
    /\ voting_status = "idle"
    /\ vote_duration_sec = NoNumber
    /\ winner = None
    /\ reply = Resp("create_room", 200, None)
    /\ resolving = Idle
    /\ reading = Idle

Fail(op, status, detail) ==
    /\ Respond(op, status, detail)
    /\ UNCHANGED room

----------------------------------------------------------------------------
\* POST /join

join_room(nm) ==
    IF started THEN Fail("join_room", 400, "started")
    ELSE /\ players' = Append(players, Player(nm))
         /\ Respond("join_room", 200, Len(players) + 1)
         /\ UNCHANGED <<phase, night_number, day_number, started, actions,
                        witch_has_heal, witch_has_poison, last_guard_target_name,
                        deaths_last_night, muted_for_today, active_call,
                        voting_status, vote_duration_sec, winner>>

----------------------------------------------------------------------------
\* POST /start

\* Mutant: two werewolves whatever the number of players.
num_wolves_always_two(n) == 2

num_wolves(n) == IF n < 5 THEN 1 ELSE 2

base_roles(n) ==
    [i \in 1..num_wolves(n) |-> "werewolf"]
        \o <<"seer", "witch", "guard", "gambler", "prince", "mage">>

assigned_roles(n) ==
    IF n <= Len(base_roles(n)) THEN SubSeq(base_roles(n), 1, n)
    ELSE base_roles(n) \o [i \in 1..(n - Len(base_roles(n))) |-> "villager"]

\* The outcomes of random.shuffle on the ids 1..n.
ShuffleOutcomes(n) == Permutations(1..n)

\* player_ids is the shuffled id list; secret_ok: the host secret matches.
start_game(secret_ok, player_ids) ==
    LET n == Len(players)
        seat(pid) == CHOOSE k \in 1..n : player_ids[k] = pid
    IN  IF ~secret_ok THEN Fail("start_game", 403, "host_secret")
        ELSE IF n < 4 THEN Fail("start_game", 400, "players")
        ELSE /\ winner' = None
             /\ players' = [pid \in 1..n |->
                    [players[pid] EXCEPT !.role = assigned_roles(n)[seat(pid)],
                                         !.alive = TRUE,
                                         !.muted_today = FALSE,
                                         !.prince_revealed = FALSE]]
             /\ started' = TRUE
             /\ phase' = "night"
             /\ night_number' = 1
             /\ day_number' = 0
             /\ actions' = <<>>
             /\ deaths_last_night' = <<>>
             /\ muted_for_today' = <<>>
             /\ active_call' = None
             /\ witch_has_heal' = TRUE
             /\ witch_has_poison' = TRUE
             /\ voting_status' = "idle"
             /\ vote_duration_sec' = NoNumber
             /\ Respond("start_game", 200, None)
             /\ UNCHANGED last_guard_target_name

----------------------------------------------------------------------------
\* POST /phase

host_set_phase(secret_ok, ph) ==
    IF ~secret_ok THEN Fail("host_set_phase", 403, "host_secret")
    ELSE IF winner # None THEN Fail("host_set_phase", 400, "ended")
    ELSE IF ph \notin {"night", "day", "lobby"} THEN Fail("host_set_phase", 400, "phase")
    ELSE /\ phase' = ph
         /\ IF ph = "night"
            THEN /\ night_number' = night_number + 1
                 /\ actions' = <<>>
                 /\ deaths_last_night' = <<>>
                 /\ muted_for_today' = <<>>
                 /\ active_call' = None
                 /\ voting_status' = "idle"
                 /\ vote_duration_sec' = NoNumber
                 /\ players' = [i \in DOMAIN players |->
                                    [players[i] EXCEPT !.muted_today = FALSE]]
                 /\ UNCHANGED day_number
            ELSE IF ph = "day"
            THEN /\ day_number' = day_number + 1
                 /\ active_call' = None
                 /\ voting_status' = "idle"
                 /\ vote_duration_sec' = NoNumber
                 /\ UNCHANGED <<night_number, actions, deaths_last_night,
                                muted_for_today, players>>
            ELSE UNCHANGED <<night_number, day_number, actions, deaths_last_night,
                             muted_for_today, active_call, voting_status,
                             vote_duration_sec, players>>
         /\ Respond("host_set_phase", 200,
                          [phase |-> phase', night_number |-> night_number',
                           day_number |-> day_number'])
         /\ UNCHANGED <<started, witch_has_heal, witch_has_poison,
                        last_guard_target_name, winner>>

----------------------------------------------------------------------------
\* POST /call_role

\* Mutant: the role is called whether or not the game has a winner.
host_call_role_after_end(secret_ok, role) ==
    IF ~secret_ok THEN Fail("host_call_role", 403, "host_secret")
    ELSE /\ active_call' = role
         /\ Respond("host_call_role", 200, role)
         /\ UNCHANGED <<players, phase, night_number, day_number, started, actions,
                        witch_has_heal, witch_has_poison, last_guard_target_name,
                        deaths_last_night, muted_for_today, voting_status,
                        vote_duration_sec, winner>>

host_call_role(secret_ok, role) ==
    IF ~secret_ok THEN Fail("host_call_role", 403, "host_secret")
    ELSE IF winner # None THEN Fail("host_call_role", 400, "ended")
    ELSE /\ active_call' = role
         /\ Respond("host_call_role", 200, role)
         /\ UNCHANGED <<players, phase, night_number, day_number, started, actions,
                        witch_has_heal, witch_has_poison, last_guard_target_name,
                        deaths_last_night, muted_for_today, voting_status,
                        vote_duration_sec, winner>>

----------------------------------------------------------------------------
\* POST /actions

\* Mutant: the action is stamped with both counters whatever the phase.
post_action_stamp_both(pid, kind, target) ==
    IF pid \notin DOMAIN players THEN Fail("post_action", 404, "player")
    ELSE IF ~players[pid].alive THEN Fail("post_action", 400, "dead")
    ELSE IF winner # None THEN Fail("post_action", 400, "ended")
    ELSE /\ actions' = Append(actions,
                Action(pid, kind, target, phase, night_number, day_number))
         /\ Respond("post_action", 200, None)
         /\ UNCHANGED <<players, phase, night_number, day_number, started,
                        witch_has_heal, witch_has_poison, last_guard_target_name,
                        deaths_last_night, muted_for_today, active_call,
                        voting_status, vote_duration_sec, winner>>

\* pid = 0 stands for an id that is not in the room.
post_action(pid, kind, target) ==
    IF pid \notin DOMAIN players THEN Fail("post_action", 404, "player")
    ELSE IF ~players[pid].alive THEN Fail("post_action", 400, "dead")
    ELSE IF winner # None THEN Fail("post_action", 400, "ended")
    ELSE /\ actions' = Append(actions,
                Action(pid, kind, target, phase,
                       IF phase = "night" THEN night_number ELSE NoNumber,
                       IF phase = "day" THEN day_number ELSE NoNumber))
         /\ Respond("post_action", 200, None)
         /\ UNCHANGED <<players, phase, night_number, day_number, started,
                        witch_has_heal, witch_has_poison, last_guard_target_name,
                        deaths_last_night, muted_for_today, active_call,
                        voting_status, vote_duration_sec, winner>>

----------------------------------------------------------------------------
\* POST /resolve_night

OfKinds(acts, kinds) ==
    Keep(acts, {i \in DOMAIN acts : acts[i].action_type \in kinds})

\* The actions stamped with night nn.
night_actions(acts, nn) ==
    Keep(acts, {i \in DOMAIN acts :
                    acts[i].phase = "night" /\ acts[i].night_number = nn})

\* 1. Mage mute: the names appended to muted_for_today.
mage_muted(mage_actions) ==
    IF mage_actions # <<>> /\ Truthy(Last(mage_actions).target_name)
    THEN <<Last(mage_actions).target_name>>
    ELSE <<>>

\* 2. Guard
guard_target_name(guard_actions) ==
    IF guard_actions # <<>> THEN Last(guard_actions).target_name ELSE None

\* 3. Wolves victim: the tally of the wolf_kill targets, first greatest count.
wolf_target_name(wolf_actions) ==
    LET named == Keep(wolf_actions,
                      {i \in DOMAIN wolf_actions : Truthy(wolf_actions[i].target_name)})
        counter == Tally([i \in DOMAIN named |-> named[i].target_name], <<>>)
    IN  IF wolf_actions # <<>> /\ counter # <<>> THEN MaxKey(counter) ELSE None

\* Mutant: the bet counts in every night, the first included.
gambler_target_name_any_night(nn, gambler_actions) ==
    IF gambler_actions # <<>> THEN Last(gambler_actions).target_name ELSE None

\* 4. Gambler
gambler_target_name(nn, gambler_actions) ==
    IF nn >= 2 /\ gambler_actions # <<>>
    THEN Last(gambler_actions).target_name
    ELSE None

\* Mutant: the heal is used whether or not the charge is still in stock.
use_heal_unlimited(has_heal, witch_heal_decisions) ==
    /\ witch_heal_decisions # <<>>
    /\ Last(witch_heal_decisions).action_type = "witch_heal"

\* Mutant: the first heal decision of the night counts, not the last.
use_heal_first_decision(has_heal, witch_heal_decisions) ==
    /\ has_heal
    /\ witch_heal_decisions # <<>>
    /\ Head(witch_heal_decisions).action_type = "witch_heal"

\* Mutant: the first poison decision of the night counts, not the last.
poison_target_name_first_decision(has_poison, witch_poison_decisions) ==
    IF /\ has_poison
       /\ witch_poison_decisions # <<>>
       /\ Head(witch_poison_decisions).action_type = "witch_poison"
    THEN Head(witch_poison_decisions).target_name
    ELSE None

\* 5. Witch heal + poison
use_heal(has_heal, witch_heal_decisions) ==
    /\ has_heal
    /\ witch_heal_decisions # <<>>
    /\ Last(witch_heal_decisions).action_type = "witch_heal"

poison_target_name(has_poison, witch_poison_decisions) ==
    IF /\ has_poison
       /\ witch_poison_decisions # <<>>
       /\ Last(witch_poison_decisions).action_type = "witch_poison"
    THEN Last(witch_poison_decisions).target_name
    ELSE None

\* Mutant: the guard's protection is not looked at.
victim_after_guard_unchecked(wolf_target, guard_target) == wolf_target

\* The wolf victim after the guard's check.
victim_after_guard(wolf_target, guard_target) ==
    IF Truthy(wolf_target) /\ Truthy(guard_target) /\ wolf_target = guard_target
    THEN None
    ELSE wolf_target

\* The heal is spent when it cancels a wolf victim the guard did not save.
heal_spent(victim, heal) == Truthy(victim) /\ heal

\* The death list before the duplicates are removed.
death_list(wolf_victim, gambler_target, poison_target) ==
    (IF Truthy(wolf_victim) THEN <<wolf_victim>> ELSE <<>>)
        \o (IF Truthy(gambler_target) THEN <<gambler_target>> ELSE <<>>)
        \o (IF Truthy(poison_target) THEN <<poison_target>> ELSE <<>>)

\* Mutant: the duplicates are kept.
Unique_with_duplicates(names, seen) == seen \o names

RECURSIVE Unique(_, _)
Unique(names, seen) ==
    IF names = <<>> THEN seen
    ELSE Unique(Tail(names),
                IF Head(names) \in Range(seen) THEN seen ELSE Append(seen, Head(names)))

\* What resolve_night derives from the log acts in night nn with the witch's
\* charges has_heal and has_poison, step by step as the handler does.
night_plan(acts, nn, has_heal, has_poison) ==
    LET na == night_actions(acts, nn)
        guard_actions == OfKinds(na, {"guard_protect"})
        muted == mage_muted(OfKinds(na, {"mage_mute"}))
        guard == guard_target_name(guard_actions)
        wolf == wolf_target_name(OfKinds(na, {"wolf_kill"}))
        gambler == gambler_target_name(nn, OfKinds(na, {"gambler_bet"}))
        heal == use_heal(has_heal, OfKinds(na, {"witch_heal", "witch_no_heal"}))
        poison == poison_target_name(has_poison,
                        OfKinds(na, {"witch_poison", "witch_no_poison"}))
        guarded == victim_after_guard(wolf, guard)
        spent == heal_spent(guarded, heal)
        victim == IF spent THEN None ELSE guarded
        unique == Unique(death_list(victim, gambler, poison), <<>>)
    IN  [muted_for_today |-> muted,
         has_guard_action |-> guard_actions # <<>>,
         guard_target_name |-> guard,
         wolf_target_name |-> wolf,
         gambler_target_name |-> gambler,
         use_heal |-> heal,
         poison_target_name |-> poison,
         heal_spent |-> spent,
         wolf_victim |-> victim,
         deaths_unique |-> unique]

\* The roster after the mute and the deaths of a plan.
roster_after_night(ps, plan) ==
    LET muted_id == IF plan.muted_for_today = <<>> THEN 0
                    ELSE find_player_by_name(ps, plan.muted_for_today[1])
        killed_ids == {find_player_by_name(ps, plan.deaths_unique[i]) :
                            i \in DOMAIN plan.deaths_unique}
    IN  [i \in DOMAIN ps |->
            [ps[i] EXCEPT !.muted_today = (i = muted_id),
                          !.alive = @ /\ i \notin killed_ids]]

host_resolve_night(secret_ok) ==
    IF ~secret_ok THEN Fail("host_resolve_night", 403, "host_secret")
    ELSE IF phase # "night" THEN Fail("host_resolve_night", 400, "phase")
    ELSE IF winner # None THEN Fail("host_resolve_night", 400, "ended")
    ELSE LET plan == night_plan(actions, night_number, witch_has_heal, witch_has_poison)
             after == roster_after_night(players, plan)
             w == compute_winner(after)
         IN  /\ players' = after
             /\ muted_for_today' = plan.muted_for_today
             /\ last_guard_target_name' =
                    IF plan.has_guard_action THEN plan.guard_target_name
                    ELSE last_guard_target_name
             /\ witch_has_heal' = (witch_has_heal /\ ~plan.heal_spent)
             /\ witch_has_poison' = (witch_has_poison /\ ~Truthy(plan.poison_target_name))
             /\ deaths_last_night' = plan.deaths_unique
             /\ active_call' = None
             /\ IF w # None
                THEN /\ winner' = w
                     /\ phase' = "ended"
                     /\ voting_status' = "idle"
                     /\ vote_duration_sec' = NoNumber
                ELSE UNCHANGED <<winner, phase, voting_status, vote_duration_sec>>
             /\ Respond("host_resolve_night", 200,
                              [deaths |-> plan.deaths_unique,
                               muted_for_today |-> plan.muted_for_today,
                               winner |-> w])
             /\ UNCHANGED <<night_number, day_number, started, actions>>

----------------------------------------------------------------------------
\* POST /start_voting

start_voting(secret_ok, duration_sec) ==
    IF ~secret_ok THEN Fail("start_voting", 403, "host_secret")
    ELSE IF phase # "day" THEN Fail("start_voting", 400, "phase")
    ELSE IF winner # None THEN Fail("start_voting", 400, "ended")
    ELSE /\ voting_status' = "voting"
         /\ vote_duration_sec' = duration_sec
         /\ Respond("start_voting", 200, duration_sec)
         /\ UNCHANGED <<players, phase, night_number, day_number, started, actions,
                        witch_has_heal, witch_has_poison, last_guard_target_name,
                        deaths_last_night, muted_for_today, active_call, winner>>

----------------------------------------------------------------------------
\* POST /vote_preview

vote_preview(secret_ok) ==
    IF ~secret_ok THEN Fail("vote_preview", 403, "host_secret")
    ELSE /\ Respond("vote_preview", 200,
                          [candidate_name |-> compute_lynch_votes(actions).candidate_name,
                           votes |-> DictAsFunction(compute_lynch_votes(actions).counter)])
         /\ UNCHANGED room

----------------------------------------------------------------------------
\* POST /resolve_day

\* Mutant: a prince is spared every time, revealed or not.
prince_spared_every_time(p) == p.role = "prince"

\* Prince: the first time the role is revealed and the player does not die.
prince_spared(p) == p.role = "prince" /\ ~p.prince_revealed

DayBody(lynched, revealed, w) ==
    [lynched |-> lynched, prince_revealed |-> revealed, winner |-> w]

\* Mutant: the lynch is applied and the winner it produces is not stored.
host_resolve_day_without_winner(secret_ok) ==
    LET candidate_name == compute_lynch_votes(actions).candidate_name
        target == find_player_by_name(players, candidate_name)
    IN  IF ~secret_ok THEN Fail("host_resolve_day", 403, "host_secret")
        ELSE IF phase # "day" THEN Fail("host_resolve_day", 400, "phase")
        ELSE IF winner # None THEN Fail("host_resolve_day", 400, "ended")
        ELSE IF ~Truthy(candidate_name) \/ target = 0
        THEN /\ voting_status' = "idle"
             /\ vote_duration_sec' = NoNumber
             /\ Respond("host_resolve_day", 200,
                              DayBody(None, FALSE, compute_winner(players)))
             /\ UNCHANGED <<players, phase, night_number, day_number, started,
                            actions, witch_has_heal, witch_has_poison,
                            last_guard_target_name, deaths_last_night,
                            muted_for_today, active_call, winner>>
        ELSE LET spared == prince_spared(players[target])
                 after == IF spared
                          THEN [players EXCEPT ![target].prince_revealed = TRUE]
                          ELSE [players EXCEPT ![target].alive = FALSE]
             IN  /\ players' = after
                 /\ active_call' = None
                 /\ voting_status' = "idle"
                 /\ vote_duration_sec' = NoNumber
                 /\ Respond("host_resolve_day", 200,
                                  DayBody(players[target].name, spared,
                                          compute_winner(after)))
                 /\ UNCHANGED <<winner, phase, night_number, day_number, started,
                                actions, witch_has_heal, witch_has_poison,
                                last_guard_target_name, deaths_last_night,
                                muted_for_today>>

host_resolve_day(secret_ok) ==
    LET candidate_name == compute_lynch_votes(actions).candidate_name
        target == find_player_by_name(players, candidate_name)
    IN  IF ~secret_ok THEN Fail("host_resolve_day", 403, "host_secret")
        ELSE IF phase # "day" THEN Fail("host_resolve_day", 400, "phase")
        ELSE IF winner # None THEN Fail("host_resolve_day", 400, "ended")
        ELSE IF ~Truthy(candidate_name) \/ target = 0
        THEN /\ voting_status' = "idle"
             /\ vote_duration_sec' = NoNumber
             /\ Respond("host_resolve_day", 200,
                              DayBody(None, FALSE, compute_winner(players)))
             /\ UNCHANGED <<players, phase, night_number, day_number, started,
                            actions, witch_has_heal, witch_has_poison,
                            last_guard_target_name, deaths_last_night,
                            muted_for_today, active_call, winner>>
        ELSE LET spared == prince_spared(players[target])
                 after == IF spared
                          THEN [players EXCEPT ![target].prince_revealed = TRUE]
                          ELSE [players EXCEPT ![target].alive = FALSE]
                 winner_now == compute_winner(after)
             IN  /\ players' = after
                 /\ active_call' = None
                 /\ voting_status' = "idle"
                 /\ vote_duration_sec' = NoNumber
                 /\ IF winner_now # None
                    THEN winner' = winner_now /\ phase' = "ended"
                    ELSE UNCHANGED <<winner, phase>>
                 /\ Respond("host_resolve_day", 200,
                                  DayBody(players[target].name, spared, winner_now))
                 /\ UNCHANGED <<night_number, day_number, started, actions,
                                witch_has_heal, witch_has_poison,
                                last_guard_target_name, deaths_last_night,
                                muted_for_today>>

----------------------------------------------------------------------------
\* GET /role_progress

valid_roles == {"mage", "guard", "werewolf", "seer", "witch", "gambler"}

role_actions_map(role) ==
    CASE role = "mage" -> {"mage_mute"}
      [] role = "guard" -> {"guard_protect"}
      [] role = "werewolf" -> {"wolf_kill"}
      [] role = "seer" -> {"seer_inspect"}
      [] role = "gambler" -> {"gambler_bet", "gambler_skip"}

alive_role_players(role) ==
    Keep([i \in DOMAIN players |-> i],
         {i \in DOMAIN players : players[i].alive /\ players[i].role = role})

\* Mutant: the actions of the night are not filtered by player.
night_actions_for_anyone(pid) == night_actions(actions, night_number)

night_actions_for_player(pid) ==
    LET na == night_actions(actions, night_number)
    IN  Keep(na, {i \in DOMAIN na : na[i].player_id = pid})

\* Whether the holder pid is still pending for the role.
is_pending(role, pid) ==
    LET acts == night_actions_for_player(pid)
    IN  IF role = "witch"
        THEN ~( /\ \E i \in DOMAIN acts :
                      acts[i].action_type \in {"witch_heal", "witch_no_heal"}
                /\ \E i \in DOMAIN acts :
                      acts[i].action_type \in {"witch_poison", "witch_no_poison"} )
        ELSE OfKinds(acts, role_actions_map(role)) = <<>>

\* The body of the response: pending names in roster order, and done.
role_progress_body(role) ==
    LET holders == alive_role_players(role)
        pend == Keep(holders, {i \in DOMAIN holders : is_pending(role, holders[i])})
        pending == [i \in DOMAIN pend |-> players[pend[i]].name]
    IN  [pending |-> pending, done |-> Len(pending) = 0]

\* reply.body carries the role asked for next to the two fields of the response.
role_progress(secret_ok, role) ==
    IF ~secret_ok THEN Fail("role_progress", 403, "host_secret")
    ELSE IF role \notin valid_roles THEN Fail("role_progress", 400, "role")
    ELSE /\ Respond("role_progress", 200,
                          [role |-> role] @@ role_progress_body(role))
         /\ UNCHANGED room

----------------------------------------------------------------------------
\* The views that need no host secret.  Each body is an operator of the
\* roster, so that it can be evaluated on another assignment of the roles.

PlayerPublic(p) == [name |-> p.name, alive |-> p.alive, muted_today |-> p.muted_today]

public_players(ps) == [i \in DOMAIN ps |-> PlayerPublic(ps[i])]

\* The names of the werewolves other than pid, for a werewolf pid.
wolf_mates(ps, pid) ==
    IF ps[pid].role = "werewolf"
    THEN LET mates == Keep([i \in DOMAIN ps |-> i],
                           {i \in DOMAIN ps : ps[i].role = "werewolf" /\ i # pid})
         IN  [k \in DOMAIN mates |-> ps[mates[k]].name]
    ELSE <<>>

\* GET /state/{player_id}
player_state_body(ps, pid) ==
    [player |-> ps[pid],
     players |-> public_players(ps),
     phase |-> phase,
     night_number |-> night_number,
     day_number |-> day_number,
     deaths_last_night |-> deaths_last_night,
     active_call |-> active_call,
     wolf_mates |-> wolf_mates(ps, pid),
     winner |-> winner]

get_player_state(pid) ==
    IF pid \notin DOMAIN players THEN Fail("get_player_state", 404, "player")
    ELSE /\ Respond("get_player_state", 200, player_state_body(players, pid))
         /\ UNCHANGED room

\* GET /village_state
village_state_body(ps) ==
    [phase |-> phase,
     night_number |-> night_number,
     day_number |-> day_number,
     players |-> public_players(ps),
     winner |-> winner]

village_state ==
    /\ Respond("village_state", 200, village_state_body(players))
    /\ UNCHANGED room

\* POST /seer_result: the sender's player_id is not looked at.
seer_result_body(ps, target_name) ==
    LET target == find_player_by_name(ps, target_name)
    IN  [target_name |-> ps[target].name,
         is_werewolf |-> ps[target].role = "werewolf"]

seer_result(pid, target_name) ==
    IF ~Truthy(target_name) THEN Fail("seer_result", 400, "target_name")
    ELSE IF find_player_by_name(players, target_name) = 0
    THEN Fail("seer_result", 404, "target")
    ELSE /\ Respond("seer_result", 200, seer_result_body(players, target_name))
         /\ UNCHANGED room

\* GET /witch_info/{player_id}
witch_info_body(ps, pid) ==
    LET victim_name ==
            wolf_target_name(OfKinds(night_actions(actions, night_number), {"wolf_kill"}))
    IN  [victim_name |-> victim_name,
         can_heal |-> Truthy(victim_name) /\ witch_has_heal,
         can_poison |-> witch_has_poison]

witch_info(pid) ==
    IF \/ pid \notin DOMAIN players
       \/ players[pid].role # "witch"
       \/ ~players[pid].alive
    THEN Fail("witch_info", 403, "witch")
    ELSE /\ Respond("witch_info", 200, witch_info_body(players, pid))
         /\ UNCHANGED room

----------------------------------------------------------------------------
\* resolve_night and village_state one field access at a time.  The handlers
\* are plain `def` endpoints, which the server runs on a pool of threads, and
\* the room has no lock: the steps of two requests interleave.

\* resolve_night has passed its checks (main.py:386-391) and is at line pc.
\* before: the fields of the room the views show, as they were then.
host_resolve_night_begin(secret_ok) ==
    IF ~secret_ok THEN Fail("host_resolve_night", 403, "host_secret")
    ELSE IF phase # "night" THEN Fail("host_resolve_night", 400, "phase")
    ELSE IF winner # None THEN Fail("host_resolve_night", 400, "ended")
    ELSE /\ resolving' =
                [pc |-> "clear_deaths",
                 i |-> 1,
                 plan |-> night_plan(<<>>, 0, FALSE, FALSE),
                 w |-> None,
                 before |-> [players |-> players, phase |-> phase, winner |-> winner,
                             witch_has_heal |-> witch_has_heal,
                             witch_has_poison |-> witch_has_poison]]
         /\ UNCHANGED <<room, reply, reading>>

\* The line after pc, for the locals r (with the plan and the winner already
\* in place when pc computes them) and a roster of n players.
resolve_night_next(pc, r, n) ==
    CASE pc = "clear_deaths" -> "clear_muted"
      [] pc = "clear_muted" -> "unmute"
      [] pc = "unmute" -> IF r.i < n THEN "unmute" ELSE "plan"
      [] pc = "plan" -> "mute_list"
      [] pc = "mute_list" -> "mute_player"
      [] pc = "mute_player" -> "guard"
      [] pc = "guard" -> "heal"
      [] pc = "heal" -> "poison"
      [] pc = "poison" -> IF r.plan.deaths_unique = <<>> THEN "store_deaths" ELSE "kill"
      [] pc = "kill" -> IF r.i < Len(r.plan.deaths_unique) THEN "kill" ELSE "store_deaths"
      [] pc = "store_deaths" -> "clear_call"
      [] pc = "clear_call" -> "evaluate"
      [] pc = "evaluate" -> IF r.w # None THEN "winner" ELSE "respond"
      [] pc = "winner" -> "phase"
      [] pc = "phase" -> "voting_status"
      [] pc = "voting_status" -> "vote_duration_sec"
      [] pc = "vote_duration_sec" -> "respond"
      [] pc = "respond" -> "done"
\* One line of resolve_night (main.py:393-508): at most one field of the room
\* is written.  A line the handler's `if` skips is a step without a write.
host_resolve_night_step ==
    LET pc == resolving.pc
        r == [resolving EXCEPT
                !.plan = IF pc = "plan"
                         THEN night_plan(actions, night_number,
                                         witch_has_heal, witch_has_poison)
                         ELSE @,
                !.w = IF pc = "evaluate" THEN compute_winner(players) ELSE @]
        next == resolve_night_next(pc, r, Len(players))
        muted == IF r.plan.muted_for_today = <<>> THEN 0
                 ELSE find_player_by_name(players, r.plan.muted_for_today[1])
        killed == IF pc = "kill"
                  THEN find_player_by_name(players, r.plan.deaths_unique[r.i])
                  ELSE 0
    IN  /\ pc \notin {"idle", "done"}
        /\ deaths_last_night' =
                CASE pc = "clear_deaths" -> <<>>
                  [] pc = "store_deaths" -> r.plan.deaths_unique
                  [] OTHER -> deaths_last_night
        /\ muted_for_today' =
                CASE pc = "clear_muted" -> <<>>
                  [] pc = "mute_list" -> muted_for_today \o r.plan.muted_for_today
                  [] OTHER -> muted_for_today
        /\ players' =
                CASE pc = "unmute" -> [players EXCEPT ![r.i].muted_today = FALSE]
                  [] pc = "mute_player" /\ muted # 0 ->
                        [players EXCEPT ![muted].muted_today = TRUE]
                  [] pc = "kill" /\ killed # 0 ->
                        [players EXCEPT ![killed].alive = FALSE]
                  [] OTHER -> players
        /\ last_guard_target_name' =
                IF pc = "guard" /\ r.plan.has_guard_action
                THEN r.plan.guard_target_name ELSE last_guard_target_name
        /\ witch_has_heal' = (witch_has_heal /\ ~(pc = "heal" /\ r.plan.heal_spent))
        /\ witch_has_poison' =
                (witch_has_poison /\ ~(pc = "poison" /\ Truthy(r.plan.poison_target_name)))
        /\ active_call' = IF pc = "clear_call" THEN None ELSE active_call
        /\ winner' = IF pc = "winner" THEN r.w ELSE winner
        /\ phase' = IF pc = "phase" THEN "ended" ELSE phase
        /\ voting_status' = IF pc = "voting_status" THEN "idle" ELSE voting_status
        /\ vote_duration_sec' =
                IF pc = "vote_duration_sec" THEN NoNumber ELSE vote_duration_sec
        /\ reply' =
                IF pc = "respond"
                THEN Resp("host_resolve_night", 200,
                          [deaths |-> r.plan.deaths_unique,
                           muted_for_today |-> muted_for_today,
                           winner |-> r.w])
                ELSE reply
        /\ resolving' =
                [r EXCEPT !.pc = next,
                          !.i = IF next = pc THEN @ + 1 ELSE 1]
        /\ UNCHANGED <<night_number, day_number, started, actions, reading>>

\* village_state has found the room (main.py:803) and reads player i next;
\* the comprehension over an empty roster reads no player.
village_state_begin ==
    /\ reading' = [pc |-> IF Len(players) = 0 THEN "phase" ELSE "players", i |-> 1,
                   body |-> [phase |-> "", night_number |-> 0, day_number |-> 0,
                             players |-> <<>>, winner |-> None]]
    /\ UNCHANGED <<room, reply, resolving>>

\* One read of village_state (main.py:804-815): the players one by one, then
\* phase, night_number, day_number and winner, then the response.
village_state_step ==
    LET pc == reading.pc
        body == reading.body
    IN  /\ pc \notin {"idle"}
        /\ reading' =
            CASE pc = "players" ->
                    [pc |-> IF reading.i < Len(players) THEN "players" ELSE "phase",
                     i |-> reading.i + 1,
                     body |-> [body EXCEPT
                                !.players = Append(@, PlayerPublic(players[reading.i]))]]
              [] pc = "phase" ->
                    [reading EXCEPT !.pc = "night_number", !.body.phase = phase]
              [] pc = "night_number" ->
                    [reading EXCEPT !.pc = "day_number",
                                    !.body.night_number = night_number]
              [] pc = "day_number" ->
                    [reading EXCEPT !.pc = "winner", !.body.day_number = day_number]
              [] pc = "winner" ->
                    [reading EXCEPT !.pc = "respond", !.body.winner = winner]
              [] pc = "respond" -> Idle
        /\ reply' = IF pc = "respond" THEN Resp("village_state", 200, body) ELSE reply
        /\ UNCHANGED <<room, resolving>>

----------------------------------------------------------------------------
\* A call of compute_winner(room) on its own.

win_evaluator ==
    /\ Respond("compute_winner", 200, compute_winner(players))
    /\ UNCHANGED room

----------------------------------------------------------------------------
\* Specifications.  Each one lets the host and the players send the requests
\* of one part of the game, with inputs drawn from small sets.

Joined == Len(players)

\* The lowest-numbered living player (0 when nobody lives).
FirstAlive ==
    IF \E i \in DOMAIN players : players[i].alive
    THEN CHOOSE i \in DOMAIN players :
            players[i].alive /\ \A j \in DOMAIN players : j < i => ~players[j].alive
    ELSE 0

\* The rosters considered have the least size start_game accepts.
MinPlayers == 4

\* -- The nights of a 4-player game -----------------------------------------
\* start_game leaves any of the 24 orders; a second night is opened after a
\* night without submissions, and takes submissions of its own.

NightTargets == {PlayerName(1), PlayerName(2)}

NightInputs ==
    {[kind |-> k, target |-> t] :
        k \in {"wolf_kill", "guard_protect", "gambler_bet", "witch_poison"},
        t \in NightTargets}
    \cup {[kind |-> k, target |-> None] :
            k \in {"witch_heal", "witch_no_heal", "witch_no_poison"}}

NextNight ==
    \/ /\ Joined < MinPlayers
       /\ join_room(PlayerName(Joined + 1))
    \/ /\ Joined = MinPlayers /\ ~started
       /\ \E ids \in ShuffleOutcomes(Joined) : start_game(TRUE, ids)
    \/ /\ started /\ winner = None /\ FirstAlive # 0
       /\ Len(actions) < MaxActions
       /\ \E in \in NightInputs : post_action(FirstAlive, in.kind, in.target)
    \/ /\ started /\ winner = None /\ phase = "night"
       /\ host_resolve_night(TRUE)
    \/ /\ started /\ winner = None /\ night_number < MaxCycle
       /\ actions = <<>>
       /\ host_set_phase(TRUE, "night")

SpecNight == Init /\ [][NextNight]_vars

\* -- The whole game: every request, in any order ---------------------------
\* The code accepts start_game at any time; here the game is started again
\* once it has a winner.

\* Longest action log considered in the whole game.
MaxGameActions == 2

GameInputs ==
    {[kind |-> "wolf_kill", target |-> PlayerName(1)],
     [kind |-> "witch_poison", target |-> PlayerName(1)],
     [kind |-> "witch_poison", target |-> PlayerName(2)],
     [kind |-> "vote_lynch", target |-> PlayerName(2)],
     [kind |-> "witch_heal", target |-> None]}

Next ==
    \/ /\ Joined < MinPlayers
       /\ join_room(PlayerName(Joined + 1))
    \/ /\ Joined = MinPlayers
       /\ ~started \/ winner # None
       /\ \E ids \in ShuffleOutcomes(Joined) : start_game(TRUE, ids)
    \/ /\ started
       /\ \E ph \in {"night", "day"} :
            /\ ph = "night" => night_number < MaxCycle
            /\ ph = "day" => day_number < MaxCycle
            /\ host_set_phase(TRUE, ph)
    \/ /\ started
       /\ \E role \in {"witch", None} : host_call_role(TRUE, role)
    \/ /\ started
       /\ start_voting(TRUE, 30)
    \/ /\ started
       /\ host_resolve_night(TRUE)
    \/ /\ started
       /\ host_resolve_day(TRUE)
    \/ /\ started /\ FirstAlive # 0
       /\ Len(actions) < MaxGameActions
       /\ \E in \in GameInputs : post_action(FirstAlive, in.kind, in.target)

Spec == Init /\ [][Next]_vars

\* -- The days of a 4-player game -------------------------------------------

\* The least roster with a prince.
PrincePlayers == 7

DaySenders == {1, 2}

DayInputs ==
    {[sender |-> v, target |-> t] : v \in DaySenders, t \in NightTargets}
    \cup {[sender |-> 1, target |-> None]}

NextDay ==
    \/ /\ Joined < MinPlayers
       /\ join_room(PlayerName(Joined + 1))
    \/ /\ Joined = MinPlayers /\ ~started
       /\ \E ids \in ShuffleOutcomes(Joined) : start_game(TRUE, ids)
    \/ /\ started /\ winner = None
       /\ \E ph \in {"night", "day"} :
            /\ ph = "night" => night_number < MaxCycle
            /\ ph = "day" => day_number < MaxCycle
            /\ host_set_phase(TRUE, ph)
    \/ /\ started /\ winner = None
       /\ Len(actions) < MaxActions
       /\ \E in \in DayInputs :
            /\ players[in.sender].alive
            /\ post_action(in.sender, "vote_lynch", in.target)
    \/ /\ started
       /\ vote_preview(TRUE)
    \/ /\ started /\ winner = None /\ phase = "day"
       /\ host_resolve_day(TRUE)

SpecDay == Init /\ [][NextDay]_vars

\* -- The role progress query in a room of 5 and in a room of 8 players ------
\* start_game leaves any arrangement of the roles in both rooms.  The room of
\* 5 is followed through two submissions of any kind and the resolution of
\* the night; the room of 8, the least with a mage and a gambler, through one
\* submission of the mage's or the gambler's kinds.

\* The least roster with two werewolves.
WolfPlayers == 5

MagePlayers == 8

ProgressRooms == {WolfPlayers, MagePlayers}

ProgressKinds ==
    {"mage_mute", "guard_protect", "wolf_kill", "seer_inspect", "gambler_bet",
     "gambler_skip", "witch_heal", "witch_no_heal", "witch_poison",
     "witch_no_poison"}

MageRoomKinds == {"mage_mute", "gambler_skip"}

\* Longest action log considered in the room of 8.
MageRoomActions == 1

NextProgress ==
    \/ /\ Joined < MagePlayers /\ ~started
       /\ join_room(PlayerName(Joined + 1))
    \/ /\ Joined \in ProgressRooms /\ ~started
       /\ \E ids \in ShuffleOutcomes(Joined) : start_game(TRUE, ids)
    \/ /\ started /\ Joined = WolfPlayers /\ winner = None /\ FirstAlive # 0
       /\ Len(actions) < MaxGameActions
       /\ \E k \in ProgressKinds : post_action(FirstAlive, k, PlayerName(1))
    \/ /\ started /\ Joined = MagePlayers
       /\ Len(actions) < MageRoomActions
       /\ \E k \in MageRoomKinds : post_action(FirstAlive, k, PlayerName(1))
    \/ /\ started /\ Joined = WolfPlayers /\ winner = None /\ phase = "night"
       /\ host_resolve_night(TRUE)
    \/ /\ started
       /\ \E role \in valid_roles \cup {"prince"} : role_progress(TRUE, role)

SpecProgress == Init /\ [][NextProgress]_vars

\* -- The win evaluator on every roster of up to MaxRoster players -----------

MaxRoster == 4

RosterRoles == {"werewolf", "villager", None}

Rosters(n) ==
    {[i \in 1..n |-> [Player(PlayerName(i)) EXCEPT !.role = f[i].role,
                                                   !.alive = f[i].alive]] :
        f \in [1..n -> [role : RosterRoles, alive : BOOLEAN]]}

InitWin ==
    /\ players \in UNION {Rosters(n) : n \in 0..MaxRoster}
    /\ phase = "lobby"
    /\ night_number = 0
    /\ day_number = 0
    /\ started = FALSE
    /\ actions = <<>>
    /\ witch_has_heal = TRUE
    /\ witch_has_poison = TRUE
    /\ last_guard_target_name = None
    /\ deaths_last_night = <<>>
    /\ muted_for_today = <<>>
    /\ active_call = None
    /\ voting_status = "idle"
    /\ vote_duration_sec = NoNumber
    /\ winner = None
    /\ reply = Resp("create_room", 200, None)
    /\ resolving = Idle
    /\ reading = Idle

NextWin == win_evaluator

SpecWin == InitWin /\ [][NextWin]_vars

----------------------------------------------------------------------------
\* Vocabulary of the properties, read off the log and the roster directly.

PlayerNames == {players[i].name : i \in DOMAIN players}

\* Whether the player called nm is alive in roster ps (FALSE for no player).
AliveIn(ps, nm) == \E i \in DOMAIN ps : ps[i].name = nm /\ ps[i].alive

Living == {nm \in PlayerNames : AliveIn(players, nm)}

\* The positions in the log of the current night's actions of the kinds.
NightIdx(kinds) ==
    {i \in DOMAIN actions :
        /\ actions[i].phase = "night"
        /\ actions[i].night_number = night_number
        /\ actions[i].action_type \in kinds}

\* The last action of the current night of one of the kinds is of kind k and
\* names t.
LastIs(kinds, k, t) ==
    /\ NightIdx(kinds) # {}
    /\ LET m == CHOOSE i \in NightIdx(kinds) : \A j \in NightIdx(kinds) : j <= i
       IN  actions[m].action_type = k /\ actions[m].target_name = t

HealKinds == {"witch_heal", "witch_no_heal"}

PoisonKinds == {"witch_poison", "witch_no_poison"}

\* Every wolf_kill of the current night names x, and there is one.
WolvesAllName(x) ==
    /\ NightIdx({"wolf_kill"}) # {}
    /\ \A i \in NightIdx({"wolf_kill"}) : actions[i].target_name = x

\* x is the wolves' victim: the most named target of the night's wolf_kill
\* actions, the earliest named among the most named.
WolfVictimIs(x) ==
    LET W == NightIdx({"wolf_kill"})
        Count(y) == Cardinality({i \in W : actions[i].target_name = y})
        First(y) == CHOOSE i \in W :
                        /\ actions[i].target_name = y
                        /\ \A j \in W : actions[j].target_name = y => i <= j
    IN  /\ Count(x) > 0
        /\ \A i \in W :
              LET y == actions[i].target_name
              IN  (y # x /\ Truthy(y)) =>
                     \/ Count(y) < Count(x)
                     \/ Count(y) = Count(x) /\ First(x) < First(y)

\* Some action of the current night of one of the kinds names x.
Names(kinds, x) == \E i \in NightIdx(kinds) : actions[i].target_name = x

\* x is the target of the gambler's bet that counts this night.
GamblerBetsOn(x) == night_number >= 2 /\ LastIs({"gambler_bet"}, "gambler_bet", x)

\* x is the target of the poison that is applied this night.
PoisonApplies(x) == witch_has_poison /\ LastIs(PoisonKinds, "witch_poison", x)

\* The step is a successful resolve_night (resp. resolve_day, start_game).
ResolvesNight == reply'.op = "host_resolve_night" /\ reply'.status = 200

ResolvesDay == reply'.op = "host_resolve_day" /\ reply'.status = 200

StartsGame == reply'.op = "start_game" /\ reply'.status = 200

\* The last request was a successful resolve_night.
NightResolved == reply.op = "host_resolve_night" /\ reply.status = 200

----------------------------------------------------------------------------
\* C1 as stated: when every wolf_kill of the night and the last guard_protect
\* name the same living player, that player is alive after resolve_night,
\* whatever the witch decided.
C1_GuardedAlwaysSurvives ==
    [][\A x \in Living :
         (ResolvesNight /\ WolvesAllName(x) /\ LastIs({"guard_protect"}, "guard_protect", x))
            => AliveIn(players', x)]_vars

\* C1 amended: when every wolf_kill of the night and the last guard_protect
\* name the same living player, that player is alive after resolve_night
\* whatever the heal decision, unless the player is also the target of the
\* poison applied this night or of the gambler's bet of a night >= 2.
C1_GuardCancelsWolfKill ==
    [][\A x \in Living :
         ( /\ ResolvesNight
           /\ WolvesAllName(x)
           /\ LastIs({"guard_protect"}, "guard_protect", x)
           /\ ~PoisonApplies(x)
           /\ ~GamblerBetsOn(x) )
            => AliveIn(players', x)]_vars

\* A night was resolved in which the wolves and the guard named the same
\* player, the witch decided on both potions, and the player lives.
C1_Witness ==
    \E x \in Living :
        /\ NightResolved
        /\ WolvesAllName(x)
        /\ LastIs({"guard_protect"}, "guard_protect", x)
        /\ NightIdx(HealKinds \cup PoisonKinds) # {}
        /\ deaths_last_night = <<>>

\* C2: with the heal in stock, a wolf victim x no guard_protect of the night
\* names and witch_heal as last heal decision, resolve_night spends the heal
\* and x is in the deaths only as the gambler's or the poison's target; a
\* living x that is neither stays alive.
C2_HealCancelsWolfKill ==
    [][\A x \in PlayerNames :
         ( /\ ResolvesNight
           /\ witch_has_heal
           /\ WolfVictimIs(x)
           /\ ~Names({"guard_protect"}, x)
           /\ LastIs(HealKinds, "witch_heal", None) )
            => /\ ~witch_has_heal'
               /\ (~GamblerBetsOn(x) /\ ~PoisonApplies(x))
                    => /\ x \notin Range(deaths_last_night')
                       /\ AliveIn(players', x) = AliveIn(players, x)]_vars

\* A night was resolved in which the heal saved an unguarded wolf victim.
C2_Witness ==
    \E x \in Living :
        /\ NightResolved
        /\ WolfVictimIs(x)
        /\ ~Names({"guard_protect"}, x)
        /\ LastIs(HealKinds, "witch_heal", None)
        /\ ~witch_has_heal
        /\ deaths_last_night = <<>>

\* C3: with the poison in stock and witch_poison on a living player t as last
\* poison decision, t is dead after resolve_night and the poison is spent,
\* also when t is the guard's protected name or the healed wolf victim.
C3_PoisonIsUnconditional ==
    [][\A t \in Living :
         (ResolvesNight /\ witch_has_poison /\ LastIs(PoisonKinds, "witch_poison", t))
            => /\ ~AliveIn(players', t)
               /\ t \in Range(deaths_last_night')
               /\ ~witch_has_poison']_vars

\* A night was resolved in which the poisoned player was also the guard's
\* protected name and the wolves' healed victim, and died of the poison.
C3_Witness ==
    \E t \in PlayerNames :
        /\ NightResolved
        /\ LastIs(PoisonKinds, "witch_poison", t)
        /\ (LastIs({"guard_protect"}, "guard_protect", t)
              \/ (WolvesAllName(t) /\ LastIs(HealKinds, "witch_heal", None)))
        /\ ~Names({"gambler_bet"}, t)
        /\ deaths_last_night = <<t>>
        /\ ~AliveIn(players, t)
        /\ ~witch_has_poison

\* C4: in resolve_night the target of the last gambler_bet of the night dies
\* when night_number >= 2, guarded or healed or not; in night 1, or without a
\* gambler_bet, every player who dies is named by a wolf_kill or by a
\* witch_poison of the night, and so is every name of the death list.
C4_GamblerBet ==
    [][ResolvesNight =>
         /\ \A t \in Living :
              (night_number >= 2 /\ LastIs({"gambler_bet"}, "gambler_bet", t))
                => ~AliveIn(players', t) /\ t \in Range(deaths_last_night')
         /\ (night_number = 1 \/ NightIdx({"gambler_bet"}) = {})
                => /\ \A x \in Living :
                        ~AliveIn(players', x) => Names({"wolf_kill", "witch_poison"}, x)
                   /\ \A x \in Range(deaths_last_night') :
                        Names({"wolf_kill", "witch_poison"}, x)]_vars

\* A night >= 2 was resolved in which the gambler's target, guarded (or the
\* wolves' healed victim), died of the bet.
C4_Witness ==
    \E t \in PlayerNames :
        /\ NightResolved
        /\ night_number >= 2
        /\ LastIs({"gambler_bet"}, "gambler_bet", t)
        /\ LastIs({"guard_protect"}, "guard_protect", t)
        /\ ~Names({"witch_poison"}, t)
        /\ deaths_last_night = <<t>>
        /\ ~AliveIn(players, t)

\* C5: without a new start_game, witch_has_heal and witch_has_poison never go
\* from false back to true; once the heal is spent a resolve_night kills the
\* wolves' unguarded victim whatever heal decision the log holds, and once
\* the poison is spent every player a resolve_night kills is named by a
\* wolf_kill or a gambler_bet of the night.
C5_ConsumablesSingleUse ==
    [][~StartsGame =>
         /\ ~witch_has_heal => ~witch_has_heal'
         /\ ~witch_has_poison => ~witch_has_poison'
         /\ (ResolvesNight /\ ~witch_has_heal) =>
                \A x \in Living :
                    (WolfVictimIs(x) /\ ~LastIs({"guard_protect"}, "guard_protect", x))
                        => ~AliveIn(players', x)
         /\ (ResolvesNight /\ ~witch_has_poison) =>
                \A x \in Living :
                    ~AliveIn(players', x) => Names({"wolf_kill", "gambler_bet"}, x)]_vars

\* A later night was resolved whose log ends the heal decisions with
\* witch_heal, and the wolves' victim died all the same: the heal was spent.
C5_Witness ==
    \E x \in PlayerNames :
        /\ NightResolved
        /\ night_number >= 2
        /\ WolfVictimIs(x)
        /\ LastIs(HealKinds, "witch_heal", None)
        /\ NightIdx(PoisonKinds \cup {"gambler_bet"}) = {}
        /\ ~witch_has_heal
        /\ deaths_last_night = <<x>>
        /\ ~AliveIn(players, x)

----------------------------------------------------------------------------
\* The day vote, read off the log directly.

\* The positions of the vote_lynch actions that name a target.
VoteIdx ==
    {i \in DOMAIN actions :
        actions[i].action_type = "vote_lynch" /\ Truthy(actions[i].target_name)}

Voters == {actions[i].player_id : i \in VoteIdx}

\* The target of the vote v submitted last.
LastVoteOf(v) ==
    LET mine == {i \in VoteIdx : actions[i].player_id = v}
    IN  actions[CHOOSE i \in mine : \A j \in mine : j <= i].target_name

VotesFor(t) == Cardinality({v \in Voters : LastVoteOf(v) = t})

VotedNames == {LastVoteOf(v) : v \in Voters}

\* One vote per voter, for the voter's last target.
ExpectedVotes == [t \in VotedNames |-> VotesFor(t)]

TopVoted(t) == t \in VotedNames /\ \A u \in VotedNames : VotesFor(u) <= VotesFor(t)

VotePreviewed == reply.op = "vote_preview" /\ reply.status = 200

DayResolved == reply.op = "host_resolve_day" /\ reply.status = 200

\* The log restricted to the vote_lynch actions stamped with the current day.
CurrentDayActions ==
    Keep(actions, {i \in DOMAIN actions :
                      actions[i].phase = "day" /\ actions[i].day_number = day_number})

\* C6: a resolve_day whose top-voted target is a prince not yet revealed
\* reveals the prince and leaves the alive flag as it was; one whose
\* top-voted target is a revealed prince sets alive to false; and without a
\* new start_game prince_revealed never goes back to false.
C6_PrinceSparedOnce ==
    [][/\ ResolvesDay =>
            \A i \in DOMAIN players :
                ( /\ players[i].role = "prince"
                  /\ compute_lynch_votes(actions).candidate_name = players[i].name )
                => IF ~players[i].prince_revealed
                   THEN /\ players'[i].prince_revealed
                        /\ players'[i].alive = players[i].alive
                        /\ reply'.body.prince_revealed
                   ELSE ~players'[i].alive
       /\ ~StartsGame =>
            \A i \in DOMAIN players :
                players[i].prince_revealed => players'[i].prince_revealed]_vars

\* A day was resolved that lynched the prince for good: the prince had been
\* revealed (and spared) by an earlier resolve_day.
C6_Witness ==
    \E i \in DOMAIN players :
        /\ DayResolved
        /\ players[i].role = "prince"
        /\ players[i].prince_revealed
        /\ ~players[i].alive
        /\ reply.body.lynched = players[i].name
        /\ ~reply.body.prince_revealed

\* C7: the tally vote_preview returns, and the one resolve_day lynches by,
\* counts one vote per voter, for the target of the voter's last vote_lynch
\* that names a target: after vote_lynch(A) then vote_lynch(B) the voter adds
\* 1 to B and nothing to A.
C7_LastVoteWins ==
    [][/\ VotePreviewed' =>
            /\ reply'.body.votes = ExpectedVotes
            /\ IF VotedNames = {} THEN reply'.body.candidate_name = None
               ELSE TopVoted(reply'.body.candidate_name)
       /\ ResolvesDay =>
            IF VotedNames = {} THEN reply'.body.lynched = None
            ELSE TopVoted(reply'.body.lynched)]_vars

\* A preview was taken of a log in which a voter voted for A and then, the
\* same day, for B: the tally gives B that one vote and A none.
C7_Witness ==
    \E i, j \in VoteIdx :
        /\ VotePreviewed
        /\ i < j
        /\ actions[i].player_id = actions[j].player_id
        /\ actions[i].target_name # actions[j].target_name
        /\ actions[i].phase = "day" /\ actions[j].phase = "day"
        /\ actions[i].day_number = actions[j].day_number
        /\ Cardinality(Voters) = 1
        /\ reply.body.votes = [t \in {actions[j].target_name} |-> 1]

\* C8 as stated: resolve_day lynches by the tally of the vote_lynch actions
\* stamped with phase day and the current day number only.
C8_OnlyCurrentDayVotes ==
    [][ResolvesDay =>
         reply'.body.lynched = compute_lynch_votes(CurrentDayActions).candidate_name]_vars

----------------------------------------------------------------------------
\* The number of living players of roster ps from position i on that are
\* werewolves (wolves = TRUE) or are not (wolves = FALSE).
RECURSIVE CountFrom(_, _, _)
CountFrom(ps, wolves, i) ==
    IF i > Len(ps) THEN 0
    ELSE (IF ps[i].alive /\ ((ps[i].role = "werewolf") = wolves) THEN 1 ELSE 0)
            + CountFrom(ps, wolves, i + 1)

WinEvaluated == reply.op = "compute_winner" /\ reply.status = 200

\* C9: with W living werewolves and O living others, the win evaluator
\* returns village exactly when W = 0 and O > 0, werewolves exactly when
\* W > 0 and W >= O, and no winner otherwise; the call changes no room state.
C9_WinEvaluator ==
    [][WinEvaluated' =>
         LET W == CountFrom(players, TRUE, 1)
             O == CountFrom(players, FALSE, 1)
         IN  /\ (reply'.body = "village") = (W = 0 /\ O > 0)
             /\ (reply'.body = "werewolves") = (W > 0 /\ W >= O)
             /\ (reply'.body = None) = ~((W = 0 /\ O > 0) \/ (W > 0 /\ W >= O))
             /\ UNCHANGED room]_vars

\* The evaluator was called on a roster with as many living werewolves as
\* living others, and returned werewolves.
C9_Witness ==
    /\ WinEvaluated
    /\ CountFrom(players, TRUE, 1) = CountFrom(players, FALSE, 1)
    /\ CountFrom(players, TRUE, 1) > 0
    /\ reply.body = "werewolves"

----------------------------------------------------------------------------
\* The role progress, read off the log directly.

\* Player i has submitted, in the current night, an action of one of the kinds.
Submitted(i, kinds) ==
    \E n \in NightIdx(kinds) : actions[n].player_id = i

AllowedKinds(role) ==
    CASE role = "mage" -> {"mage_mute"}
      [] role = "guard" -> {"guard_protect"}
      [] role = "werewolf" -> {"wolf_kill"}
      [] role = "seer" -> {"seer_inspect"}
      [] role = "gambler" -> {"gambler_bet", "gambler_skip"}

Finished(role, i) ==
    IF role = "witch" THEN Submitted(i, HealKinds) /\ Submitted(i, PoisonKinds)
    ELSE Submitted(i, AllowedKinds(role))

PendingHolders(role) ==
    {i \in DOMAIN players :
        players[i].alive /\ players[i].role = role /\ ~Finished(role, i)}

ProgressAnswered == reply.op = "role_progress" /\ reply.status = 200

\* C10: role_progress(role) returns exactly the names of the living holders
\* of the role who have not finished for the current night (a witch: a heal
\* decision and a poison decision of her own; the others: one action of the
\* role's kinds), done is true exactly when pending is empty, which it is
\* for a role without living holder, and the query changes no room state.
C10_RoleProgress ==
    [][ProgressAnswered' =>
         LET body == reply'.body
         IN  /\ Range(body.pending) = {players[i].name : i \in PendingHolders(body.role)}
             /\ Len(body.pending) = Cardinality(PendingHolders(body.role))
             /\ body.done = (body.pending = <<>>)
             /\ (~\E i \in DOMAIN players : players[i].alive /\ players[i].role = body.role)
                    => body.pending = <<>> /\ body.done
             /\ UNCHANGED room]_vars

\* The query was answered for a living witch who has submitted a heal
\* decision but no poison decision this night: she is still pending.
C10_Witness ==
    \E i \in DOMAIN players :
        /\ ProgressAnswered
        /\ reply.body.role = "witch"
        /\ players[i].role = "witch" /\ players[i].alive
        /\ Submitted(i, HealKinds)
        /\ ~Submitted(i, PoisonKinds)
        /\ reply.body.pending = <<players[i].name>>
        /\ ~reply.body.done

----------------------------------------------------------------------------
\* -- Submissions in every phase of a 4-player game, by the living and the
\* -- dead, before and after the game has a winner ----------------------------

SubmitSenders == {1, 2}

SubmitInputs ==
    {[kind |-> "wolf_kill", target |-> PlayerName(1)],
     [kind |-> "vote_lynch", target |-> PlayerName(2)],
     [kind |-> "dance", target |-> None]}

NextSubmit ==
    \/ /\ Joined < MinPlayers
       /\ join_room(PlayerName(Joined + 1))
    \/ /\ Joined = MinPlayers /\ ~started
       /\ \E ids \in ShuffleOutcomes(Joined) : start_game(TRUE, ids)
    \/ /\ started
       /\ \E ph \in {"night", "day", "lobby"} :
            /\ ph = "night" => night_number < MaxCycle
            /\ ph = "day" => day_number < MaxCycle
            /\ host_set_phase(TRUE, ph)
    \/ \E pid \in SubmitSenders \cap DOMAIN players, in \in SubmitInputs :
            /\ \/ Len(actions) < MaxGameActions
               \/ ~players[pid].alive
               \/ winner # None
            /\ post_action(pid, in.kind, in.target)
    \/ /\ started
       /\ host_resolve_night(TRUE)
    \/ /\ started
       /\ host_resolve_day(TRUE)

SpecSubmit == Init /\ [][NextSubmit]_vars

\* C11: a submission by a dead player, or in a room that has a winner, is
\* rejected and leaves the log and the rest of the room as they were; any
\* other submission by a player appends exactly one action at the end of the
\* log, stamped with the current phase, with night_number only in a night and
\* day_number only in a day (none in the lobby), whatever the kind and the role.
C11_SubmitAction ==
    [][\A pid \in DOMAIN players, in \in SubmitInputs :
         (reply'.op = "post_action" /\ post_action(pid, in.kind, in.target)) =>
            IF ~players[pid].alive \/ winner # None
            THEN reply'.status # 200 /\ UNCHANGED room
            ELSE /\ reply'.status = 200
                 /\ Len(actions') = Len(actions) + 1
                 /\ SubSeq(actions', 1, Len(actions)) = actions
                 /\ Last(actions').player_id = pid
                 /\ Last(actions').action_type = in.kind
                 /\ Last(actions').target_name = in.target
                 /\ Last(actions').phase = phase
                 /\ (phase = "night") => Last(actions').night_number = night_number
                 /\ (phase # "night") => Last(actions').night_number = NoNumber
                 /\ (phase = "day") => Last(actions').day_number = day_number
                 /\ (phase # "day") => Last(actions').day_number = NoNumber
                 /\ UNCHANGED <<players, phase, night_number, day_number, started,
                                witch_has_heal, witch_has_poison,
                                last_guard_target_name, deaths_last_night,
                                muted_for_today, active_call, voting_status,
                                vote_duration_sec, winner>>]_vars

\* A dead player's submission was rejected, the log holding an action of the
\* night (stamped with the night only) and one of the lobby (stamped with
\* neither counter).
C11_Witness ==
    /\ reply = Resp("post_action", 400, "dead")
    /\ \E i, j \in DOMAIN actions :
        /\ actions[i].phase = "night"
        /\ actions[i].night_number = night_number
        /\ actions[i].day_number = NoNumber
        /\ actions[j].phase = "lobby"
        /\ actions[j].night_number = NoNumber
        /\ actions[j].day_number = NoNumber

----------------------------------------------------------------------------
\* The requests that change the room of a game in progress.
EndedOps ==
    {"post_action", "host_set_phase", "host_call_role", "start_voting",
     "host_resolve_night", "host_resolve_day"}

\* C12: a room with a winner is in phase ended, and while it has a winner
\* every submit_action, set_phase, call_role, start_voting, resolve_night and
\* resolve_day fails and leaves the whole room as it was.
C12_WinnerEndsGame ==
    [][/\ winner' # None => phase' = "ended"
       /\ (winner # None /\ reply'.op \in EndedOps)
            => reply'.status # 200 /\ UNCHANGED room]_vars

\* A role was called in a room that has a winner, and the call was rejected.
C12_Witness ==
    /\ winner # None
    /\ phase = "ended"
    /\ \E i \in DOMAIN players : ~players[i].alive
    /\ reply = Resp("host_call_role", 400, "ended")

----------------------------------------------------------------------------
\* The phase a resolver requires.
RequiredPhase(op) == IF op = "host_resolve_night" THEN "night" ELSE "day"

\* C13 as stated: resolve_night and resolve_day fail with the game-ended
\* error when the room has a winner, and with the invalid-phase error when
\* it has none but is not in the resolver's phase; neither changes the room.
C13_ResolverErrorKinds ==
    [][reply'.op \in {"host_resolve_night", "host_resolve_day"} =>
         /\ winner # None =>
                /\ reply'.status = 400
                /\ reply'.body = "ended"
                /\ UNCHANGED room
         /\ (winner = None /\ phase # RequiredPhase(reply'.op)) =>
                /\ reply'.status = 400
                /\ reply'.body = "phase"
                /\ UNCHANGED room]_vars

----------------------------------------------------------------------------
\* -- The start of a game with every roster size and every shuffle -----------

\* Largest roster considered: the least with a villager.
MaxPlayers == 9

NextStart ==
    \/ /\ Joined < MaxPlayers
       /\ join_room(PlayerName(Joined + 1))
    \/ /\ Joined >= 1 /\ ~started
       /\ \E ids \in ShuffleOutcomes(Joined) : start_game(TRUE, ids)

SpecStart == Init /\ [][NextStart]_vars

NamedRoles == <<"seer", "witch", "guard", "gambler", "prince", "mage">>

\* The players of the roster ps that hold role r.
Holders(ps, r) == {i \in DOMAIN ps : ps[i].role = r}

\* C14: start_game with n < 4 players fails and changes nothing; with n >= 4,
\* whatever the shuffle, every player gets one role, 1 player is werewolf
\* when n < 5 and 2 when n >= 5, the k-th of seer, witch, guard, gambler,
\* prince, mage has one holder when the roster reaches its seat after the
\* werewolves and none otherwise, and the villagers are exactly the players
\* beyond the werewolves and the six named roles.
C14_RoleAssignment ==
    [][reply'.op = "start_game" =>
         LET n == Len(players)
             W == IF n < 5 THEN 1 ELSE 2
         IN  IF n < 4 THEN reply'.status # 200 /\ UNCHANGED room
             ELSE /\ reply'.status = 200
                  /\ Len(players') = n
                  /\ \A i \in DOMAIN players' :
                        players'[i].role \in {"werewolf", "villager"} \cup Range(NamedRoles)
                  /\ Cardinality(Holders(players', "werewolf")) = W
                  /\ \A k \in DOMAIN NamedRoles :
                        Cardinality(Holders(players', NamedRoles[k]))
                            = IF n >= W + k THEN 1 ELSE 0
                  /\ Cardinality(Holders(players', "villager"))
                            = IF n > W + 6 THEN n - (W + 6) ELSE 0]_vars

\* A game of 9 players was started with a shuffle that made the last joiner
\* a werewolf and the first the villager.
C14_Witness ==
    /\ reply = Resp("start_game", 200, None)
    /\ Len(players) = 9
    /\ players[9].role = "werewolf"
    /\ players[1].role = "villager"
    /\ Cardinality(Holders(players, "werewolf")) = 2

----------------------------------------------------------------------------
\* C15 as stated: under any sequence of requests, a repeated start_game
\* included, a player whose alive flag is false never has it true again.
C15_DeadStayDead ==
    [][\A i \in DOMAIN players : ~players[i].alive => ~players'[i].alive]_vars

----------------------------------------------------------------------------
\* -- The views of a 5-player game, the least with two werewolves ------------

ViewTargets == {PlayerName(1), PlayerName(2), Ghost, None}

NextViews ==
    \/ /\ Joined < WolfPlayers
       /\ join_room(PlayerName(Joined + 1))
    \/ /\ Joined = WolfPlayers /\ ~started
       /\ \E ids \in ShuffleOutcomes(Joined) : start_game(TRUE, ids)
    \/ /\ started /\ winner = None /\ FirstAlive # 0
       /\ Len(actions) < MaxGameActions
       /\ \E t \in NightTargets : post_action(FirstAlive, "wolf_kill", t)
    \/ /\ started /\ winner = None /\ phase = "night"
       /\ host_resolve_night(TRUE)
    \/ \E pid \in 0..Joined : get_player_state(pid)
    \/ village_state
    \/ \E pid \in 0..Joined, t \in ViewTargets : seer_result(pid, t)
    \/ \E pid \in 0..Joined : witch_info(pid)

SpecViews == Init /\ [][NextViews]_vars

\* The step is a request to op that was answered with status 200.
Answers(op) == reply'.op = op /\ reply'.status = 200

\* The roster ps with the roles of the players i and j exchanged.
SwapRoles(ps, i, j) == [ps EXCEPT ![i].role = ps[j].role, ![j].role = ps[i].role]

\* The rosters that differ from the room's by an exchange of roles between
\* two players other than pid and that pid is entitled to take for the
\* room's: a werewolf pid knows who the werewolves are, so they are the same.
SameToPlayer(pid) ==
    {ps2 \in {SwapRoles(players, i, j) : i, j \in DOMAIN players \ {pid}} :
        players[pid].role = "werewolf"
            => Holders(ps2, "werewolf") = Holders(players, "werewolf")}

\* C16 as stated: the responses of player state, village state, seer_result
\* and witch_info do not depend on the role, or on the werewolf status, of
\* any player other than the caller, the werewolves a werewolf's own player
\* state lists excepted: the response to a caller pid (for seer_result, any
\* player other than the target) is the one the same request gets with the
\* roles of two players other than pid exchanged.
C16_NoRoleLeak ==
    [][\A pid \in DOMAIN players : \A ps2 \in SameToPlayer(pid) :
         /\ (Answers("get_player_state") /\ reply'.body.player = players[pid])
                => reply'.body = player_state_body(ps2, pid)
         /\ Answers("village_state")
                => reply'.body = village_state_body(ps2)
         /\ \A t \in PlayerNames \ {players[pid].name} :
                (Answers("seer_result") /\ reply'.body.target_name = t)
                    => reply'.body = seer_result_body(ps2, t)
         /\ (Answers("witch_info") /\ players[pid].role = "witch")
                => reply'.body = witch_info_body(ps2, pid)]_vars

----------------------------------------------------------------------------
\* -- The nights of a 4-player game whose actions name a player or nobody ----
\* As in NextNight, a second night is opened after a night without submissions.

DeathTargets == {PlayerName(1), Ghost}

DeathInputs ==
    {[kind |-> k, target |-> t] :
        k \in {"wolf_kill", "guard_protect", "gambler_bet", "witch_poison"},
        t \in DeathTargets}
    \cup {[kind |-> "witch_heal", target |-> None]}

NextDeaths ==
    \/ /\ Joined < MinPlayers
       /\ join_room(PlayerName(Joined + 1))
    \/ /\ Joined = MinPlayers /\ ~started
       /\ \E ids \in ShuffleOutcomes(Joined) : start_game(TRUE, ids)
    \/ /\ started /\ winner = None /\ FirstAlive # 0
       /\ Len(actions) < MaxActions
       /\ \E in \in DeathInputs : post_action(FirstAlive, in.kind, in.target)
    \/ /\ started /\ winner = None /\ phase = "night"
       /\ host_resolve_night(TRUE)
    \/ /\ started /\ winner = None /\ night_number < MaxCycle
       /\ actions = <<>>
       /\ host_set_phase(TRUE, "night")

SpecDeaths == Init /\ [][NextDeaths]_vars

\* The heal is applied this night: it is in stock and the last heal decision
\* of the night is witch_heal.
HealApplies ==
    /\ witch_has_heal
    /\ \E i \in NightIdx(HealKinds) :
        /\ \A j \in NightIdx(HealKinds) : j <= i
        /\ actions[i].action_type = "witch_heal"

\* x is the wolves' victim and neither the guard nor the heal cancels the kill.
WolfKills(x) ==
    /\ WolfVictimIs(x)
    /\ ~LastIs({"guard_protect"}, "guard_protect", x)
    /\ ~HealApplies

\* The names an action of the log may bear.
LogNames == {actions[i].target_name : i \in DOMAIN actions} \ {None, ""}

\* The wolves' surviving victim, the gambler's target and the poison's
\* target, those there are, in this order and each listed once.
ExpectedDeaths ==
    LET wolf == IF \E x \in LogNames : WolfKills(x)
                THEN <<CHOOSE x \in LogNames : WolfKills(x)>> ELSE <<>>
        bet == IF \E x \in LogNames : GamblerBetsOn(x)
               THEN <<CHOOSE x \in LogNames : GamblerBetsOn(x)>> ELSE <<>>
        poison == IF \E x \in LogNames : PoisonApplies(x)
                  THEN <<CHOOSE x \in LogNames : PoisonApplies(x)>> ELSE <<>>
        two == IF Range(bet) \subseteq Range(wolf) THEN wolf ELSE wolf \o bet
    IN  IF Range(poison) \subseteq Range(two) THEN two ELSE two \o poison

\* C17: resolve_night replaces deaths_last_night by the wolves' victim when
\* neither guard nor heal cancels the kill, then the gambler's target, then
\* the poison's target, without the repetitions; afterwards a player is alive
\* exactly when the player was alive and is not named in that list, and a
\* name of the list that no player bears changes nothing.
C17_DeathList ==
    [][ResolvesNight =>
         /\ deaths_last_night' = ExpectedDeaths
         /\ reply'.body.deaths = ExpectedDeaths
         /\ Len(players') = Len(players)
         /\ \A i \in DOMAIN players :
                players'[i].alive =
                    (players[i].alive /\ players[i].name \notin Range(ExpectedDeaths))
         /\ \A i \in DOMAIN players :
                players'[i].name = players[i].name /\ players'[i].role = players[i].role]_vars

\* A night >= 2 was resolved in which the wolves and the poison named the
\* same player and the gambler a name nobody bears: the player is listed
\* once, before the gambler's name, and is dead.
C17_Witness ==
    /\ NightResolved
    /\ WolfVictimIs(PlayerName(1))
    /\ Names({"witch_poison"}, PlayerName(1))
    /\ GamblerBetsOn(Ghost)
    /\ deaths_last_night = <<PlayerName(1), Ghost>>
    /\ ~AliveIn(players, PlayerName(1))
    /\ \E i \in DOMAIN players : players[i].alive

----------------------------------------------------------------------------
\* C18 as stated: a resolve_night with the heal in stock and witch_heal as
\* the night's last heal decision leaves witch_has_heal false, also when the
\* guard protects the wolves' victim or the wolves have no victim.
C18_HealDecisionSpendsHeal ==
    [][(ResolvesNight /\ HealApplies) => ~witch_has_heal']_vars

----------------------------------------------------------------------------
\* The wolf kill, read as one vote per player.

\* The positions of the night's wolf_kill actions that name a target.
KillIdx == {i \in NightIdx({"wolf_kill"}) : Truthy(actions[i].target_name)}

KillVoters == {actions[i].player_id : i \in KillIdx}

\* The target of the wolf_kill v submitted last.
LastKillOf(v) ==
    LET mine == {i \in KillIdx : actions[i].player_id = v}
    IN  actions[CHOOSE i \in mine : \A j \in mine : j <= i].target_name

KilledNames == {LastKillOf(v) : v \in KillVoters}

KillVotesFor(t) == Cardinality({v \in KillVoters : LastKillOf(v) = t})

TopKilled(t) == t \in KilledNames /\ \A u \in KilledNames : KillVotesFor(u) <= KillVotesFor(t)

\* C19 as stated: the wolves' victim, as witch_info shows it and as
\* resolve_night kills it when nothing but wolf_kill was submitted, is chosen
\* by one vote per player, for the target of the player's last wolf_kill of
\* the night: after wolf_kill(A) then wolf_kill(B) by the same player, and no
\* other wolf_kill, the victim is B.
C19_LastWolfKillWins ==
    [][/\ Answers("witch_info") =>
            IF KilledNames = {} THEN reply'.body.victim_name = None
            ELSE TopKilled(reply'.body.victim_name)
       /\ (ResolvesNight /\ NightIdx({"wolf_kill"}) = DOMAIN actions) =>
            IF KilledNames = {} THEN deaths_last_night' = <<>>
            ELSE /\ Len(deaths_last_night') = 1
                 /\ TopKilled(deaths_last_night'[1])]_vars

----------------------------------------------------------------------------
\* Interleaved requests: four players, the first night's submissions, then
\* one resolve_night and any number of village_state requests, each taking
\* one step at a time.

InterleavedKinds == {"wolf_kill", "witch_poison"}

NextInterleaved ==
    \/ /\ Joined < MinPlayers
       /\ join_room(PlayerName(Joined + 1))
    \/ /\ Joined = MinPlayers /\ ~started
       /\ \E ids \in ShuffleOutcomes(Joined) : start_game(TRUE, ids)
    \/ /\ started /\ resolving = Idle /\ reading = Idle
       /\ Len(actions) < MaxGameActions
       /\ \E k \in InterleavedKinds, t \in NightTargets :
            post_action(FirstAlive, k, t)
    \/ /\ started /\ resolving = Idle
       /\ host_resolve_night_begin(TRUE)
    \/ host_resolve_night_step
    \/ /\ started /\ reading = Idle
       /\ village_state_begin
    \/ village_state_step

SpecInterleaved == Init /\ [][NextInterleaved]_vars

\* The village view of a room with roster ps, phase ph and winner w.
ViewOf(ps, ph, w) ==
    [phase |-> ph, night_number |-> night_number, day_number |-> day_number,
     players |-> public_players(ps), winner |-> w]

\* The view of the room as resolve_night found it.
ViewBefore ==
    LET b == resolving.before IN ViewOf(b.players, b.phase, b.winner)

\* The view of the room once the whole of resolve_night is applied.
ViewAfter ==
    LET b == resolving.before
        plan == night_plan(actions, night_number, b.witch_has_heal, b.witch_has_poison)
        after == roster_after_night(b.players, plan)
        w == compute_winner(after)
    IN  IF w # None THEN ViewOf(after, "ended", w)
        ELSE ViewOf(after, b.phase, b.winner)

\* C20 as stated: a village_state request that runs while resolve_night is
\* between its checks and its response answers with the room either as it was
\* before the resolution or as it is after the whole of it, never with part of
\* the resolution applied (deaths without the winner and phase they produce).
C20_ResolutionAtomicToReaders ==
    [][(/\ reading.pc = "respond" /\ reading' = Idle
        /\ resolving.pc \notin {"idle", "done"})
       => reply'.body \in {ViewBefore, ViewAfter}]_vars

----------------------------------------------------------------------------
\* The six operations on a started game of seven players, the least roster
\* with a prince, one after another: the first night and the day after it.
\* The wolves submit in the night and the votes are cast in the day.

SequentialInputs ==
    {[kind |-> "vote_lynch", target |-> PlayerName(1)],
     [kind |-> "vote_lynch", target |-> Ghost],
     [kind |-> "wolf_kill", target |-> PlayerName(2)]}

NextSequential ==
    \/ /\ Joined < PrincePlayers
       /\ join_room(PlayerName(Joined + 1))
    \/ /\ Joined = PrincePlayers /\ ~started
       /\ \E ids \in ShuffleOutcomes(Joined) : start_game(TRUE, ids)
    \/ /\ started /\ phase = "night"
       /\ host_set_phase(TRUE, "day")
    \/ /\ started
       /\ host_call_role(TRUE, "witch")
    \/ /\ started
       /\ start_voting(TRUE, 30)
    \/ /\ started
       /\ host_resolve_night(TRUE)
    \/ /\ started
       /\ host_resolve_day(TRUE)
    \/ /\ started /\ FirstAlive # 0
       /\ Len(actions) < MaxGameActions
       /\ \E in \in SequentialInputs :
            /\ (in.kind = "vote_lynch") = (phase = "day")
            /\ post_action(FirstAlive, in.kind, in.target)

SpecSequential == Init /\ [][NextSequential]_vars

\* C21: once the game is started, the stored winner is the result of
\* compute_winner on the roster as it is, in every state the six operations
\* reach one after another: none exactly when compute_winner gives none,
\* also after a resolve_day that lynches nobody (no vote, unknown name,
\* prince spared).
C21_WinnerIsEvaluation == started => winner = compute_winner(players)

\* A resolve_day has just spared the prince after a night that killed
\* somebody, and no winner is stored.
C21_Witness ==
    /\ reply = Resp("host_resolve_day", 200, reply.body)
    /\ reply.body.prince_revealed
    /\ \E i \in DOMAIN players : ~players[i].alive
    /\ winner = None

----------------------------------------------------------------------------
\* Two nights of four players in which three different names can die at once.

LastNightInputs ==
    {[kind |-> "wolf_kill", target |-> PlayerName(1)],
     [kind |-> "wolf_kill", target |-> PlayerName(2)],
     [kind |-> "gambler_bet", target |-> PlayerName(3)],
     [kind |-> "witch_poison", target |-> PlayerName(4)]}

NextLastNight ==
    \/ /\ Joined < MinPlayers
       /\ join_room(PlayerName(Joined + 1))
    \/ /\ Joined = MinPlayers /\ ~started
       /\ \E ids \in ShuffleOutcomes(Joined) : start_game(TRUE, ids)
    \/ /\ started /\ FirstAlive # 0
       /\ Len(actions) < MaxActions
       /\ \E in \in LastNightInputs : post_action(FirstAlive, in.kind, in.target)
    \/ /\ started
       /\ host_resolve_night(TRUE)
    \/ /\ started /\ night_number < MaxCycle
       /\ host_set_phase(TRUE, "night")

SpecLastNight == Init /\ [][NextLastNight]_vars

\* C22 as stated: in a started game without a winner somebody is alive; the
\* game never reaches a state with every player dead and no winner stored.
C22_SomeoneAlive ==
    (started /\ winner = None) => \E i \in DOMAIN players : players[i].alive

----------------------------------------------------------------------------
\* C23 as stated: a resolve_night that succeeds directly after a resolve_night
\* that succeeded, with nothing submitted and no phase set in between, kills
\* nobody and leaves every alive flag, both potions of the witch and
\* deaths_last_night as the first call left them; a victim the heal saved in
\* the first call is still alive.
C23_ReResolveIdempotent ==
    [][(/\ reply.op = "host_resolve_night" /\ reply.status = 200
        /\ ResolvesNight)
       => /\ \A i \in DOMAIN players : players'[i].alive = players[i].alive
          /\ witch_has_heal' = witch_has_heal
          /\ witch_has_poison' = witch_has_poison
          /\ deaths_last_night' = deaths_last_night]_vars

=============================================================================
